---- MODULE Spec2Model ----
(***************************************************************************)
(* GeminiMediaServer (src/server.js): the two tool handlers generateImage  *)
(* and generateVideo as state machines.  Every handler invocation is a     *)
(* call; a call advances at its await points, so several calls can         *)
(* interleave there.  Time is the value Date.now() would return, in ms.    *)
(***************************************************************************)
EXTENDS Integers, Sequences, FiniteSets

\* ------------------------------------------------------------------ bounds
MaxParts == 3
Tick == 5000
MaxFetchTicks == 1
MaxLateTicks == 1

\* ------------------------------------------------- constants of the program
maxWait == 5 * 60 * 1000
pollInterval == 10 * 1000

\* the handler invocations that can be in progress
Calls == {"c1", "c2"}

\* a parameter the caller did not supply
Undefined == "<undefined>"

\* time a remote call (generateContent, generateVideos, getVideosOperation,
\* fetch, arrayBuffer) may take, and the lateness a timer may have
Durations == {k * Tick : k \in 0..MaxFetchTicks}
Lateness == {k * Tick : k \in 0..MaxLateTicks}

Max(a, b) == IF a >= b THEN a ELSE b

\* ---------------------------------------------------------------- values
\* x || d on a string parameter: undefined and "" are falsy
OrDefault(x, d) == IF x = Undefined \/ x = "" THEN d ELSE x

NoValue == [defined |-> FALSE]

\* response parts of generateContent
BinPart(d) == [inlineData |-> [defined |-> TRUE, data |-> d, mimeType |-> "image/png"],
               text |-> Undefined]
TxtPart(t) == [inlineData |-> NoValue, text |-> t]
EmptyPart == [inlineData |-> NoValue, text |-> Undefined]
PartValues == {BinPart("X"), BinPart("Y"), TxtPart("a"), TxtPart("b"), TxtPart(""), EmptyPart}
PartSeqs == UNION {[1..n -> PartValues] : n \in 0..MaxParts}

\* if (part.inlineData): an object is truthy
HasInline(part) == part.inlineData.defined
\* else if (part.text): undefined and "" are falsy
HasText(part) == part.text # Undefined /\ part.text # ""

\* the for-of scan of generateImage, from part i on, with the held results
RECURSIVE ScanParts(_, _, _, _)
ScanParts(parts, i, imageResult, textResult) ==
  IF i > Len(parts) THEN [imageResult |-> imageResult, textResult |-> textResult]
  ELSE IF HasInline(parts[i])
       THEN ScanParts(parts, i + 1, parts[i].inlineData, textResult)
       ELSE IF HasText(parts[i])
            THEN ScanParts(parts, i + 1, imageResult, parts[i].text)
            ELSE ScanParts(parts, i + 1, imageResult, textResult)

\* mutant: the scan keeps the first image part it finds
RECURSIVE ScanKeepFirstImage(_, _, _, _)
ScanKeepFirstImage(parts, i, imageResult, textResult) ==
  IF i > Len(parts) THEN [imageResult |-> imageResult, textResult |-> textResult]
  ELSE IF HasInline(parts[i])
       THEN ScanKeepFirstImage(parts, i + 1,
                               IF imageResult.defined THEN imageResult
                               ELSE parts[i].inlineData, textResult)
       ELSE IF HasText(parts[i])
            THEN ScanKeepFirstImage(parts, i + 1, imageResult, parts[i].text)
            ELSE ScanKeepFirstImage(parts, i + 1, imageResult, textResult)
ExtractFirstImage(parts) == ScanKeepFirstImage(parts, 1, NoValue, Undefined)

\* mutant: the scan keeps the first text it finds
RECURSIVE ScanKeepFirstText(_, _, _, _)
ScanKeepFirstText(parts, i, imageResult, textResult) ==
  IF i > Len(parts) THEN [imageResult |-> imageResult, textResult |-> textResult]
  ELSE IF HasInline(parts[i])
       THEN ScanKeepFirstText(parts, i + 1, parts[i].inlineData, textResult)
       ELSE IF HasText(parts[i])
            THEN ScanKeepFirstText(parts, i + 1, imageResult,
                                   IF textResult # Undefined THEN textResult
                                   ELSE parts[i].text)
            ELSE ScanKeepFirstText(parts, i + 1, imageResult, textResult)
ExtractFirstText(parts) == ScanKeepFirstText(parts, 1, NoValue, Undefined)

\* the scan as the handler starts it: both results null
ExtractResult(parts) == ScanParts(parts, 1, NoValue, Undefined)

\* texts the handlers build: a template literal is its literal head and the
\* interpolated values, JSON.stringify(obj) is the JSON encoding of obj
Template(head, args) == [encoding |-> "plain", head |-> head, args |-> args]
\* mutant: the object interpolated without JSON.stringify
InterpolateObject(obj) == Template("[object Object]", obj)
JSONStringify(obj) == [encoding |-> "json", head |-> "{", args |-> obj]

TextItem(t) == [type |-> "text", text |-> t]
ImageItem(d, m) == [type |-> "image", data |-> d, mimeType |-> m]

\* the message of the Error a step throws
ErrorMessage(step) == [message |-> step]

ImageFilename(t, fmt) == [prefix |-> "gemini-image-", stamp |-> t, ext |-> fmt]
VideoFilename(t) == [prefix |-> "gemini-video-", stamp |-> t, ext |-> "mp4"]

\* --------------------------------------------------- seed image and paths
NoPath == <<"<undefined>">>
EmptyPath == << >>
MissingPath == <<"m", ".", "p", "n", "g">>
UpperJpgPath == <<"a", ".", "J", "P", "G">>
JpegPath == <<"b", ".", "j", "p", "e", "g">>
PngPath == <<"c", ".", "p", "n", "g">>
NoExtPath == <<"d">>
DirPath == <<"s", "/", "d", ".", "j", "p", "g">>
MixedJpegPath == <<"s", "/", "e", ".", "J", "p", "E", "g">>
HiddenJpgPath == <<".", "j", "p", "g">>
JpgxPath == <<"f", ".", "j", "p", "g", "x">>
InDottedDirPath == <<"d", ".", "j", "p", "g", "/", "f">>

\* the file system the handler runs on: regular files, and a directory
\* (existsSync is true of it, readFileSync throws EISDIR)
RegularFiles ==
  {UpperJpgPath, JpegPath, PngPath, NoExtPath, MixedJpegPath, HiddenJpgPath, JpgxPath,
   InDottedDirPath}
Directories == {DirPath}
ImagePaths == {NoPath, EmptyPath, MissingPath} \cup RegularFiles \cup Directories

existsSync(p) == p \in RegularFiles \cup Directories
readFileThrows(p) == p \notin RegularFiles

\* mutant: the extension compared as it is written
KeepCase(s) == s
\* String.prototype.toLowerCase, on the characters the paths use
LowerChar(ch) ==
  CASE ch = "J" -> "j" [] ch = "P" -> "p" [] ch = "G" -> "g" [] ch = "E" -> "e"
    [] OTHER -> ch
toLowerCase(s) == [i \in 1..Len(s) |-> LowerChar(s[i])]

\* index of the last occurrence of ch in s, 0 when there is none
RECURSIVE LastIndexOf(_, _, _)
LastIndexOf(s, ch, i) ==
  IF i = 0 THEN 0 ELSE IF s[i] = ch THEN i ELSE LastIndexOf(s, ch, i - 1)

\* path.extname: from the last "." of the last path segment to the end; ""
\* when the segment has no "." or only a leading one
extname(p) ==
  LET slash == LastIndexOf(p, "/", Len(p))
      dot == LastIndexOf(p, ".", Len(p))
  IN IF dot = 0 \/ dot <= slash + 1 THEN << >> ELSE SubSeq(p, dot, Len(p))

\* ext === '.jpg' || ext === '.jpeg' ? 'image/jpeg' : 'image/png'
MimeOf(p) ==
  LET ext == toLowerCase(extname(p))
  IN IF ext = <<".", "j", "p", "g">> \/ ext = <<".", "j", "p", "e", "g">>
     THEN "image/jpeg" ELSE "image/png"

\* mutant: the existsSync check dropped
UsesSeedImageUnchecked(imagePath) == imagePath # NoPath /\ imagePath # EmptyPath
\* params.imagePath && fs.existsSync(params.imagePath)
UsesSeedImage(imagePath) ==
  imagePath # NoPath /\ imagePath # EmptyPath /\ existsSync(imagePath)

\* the argument of genAINew.models.generateVideos
TextToVideoRequest(modelId, prompt, aspectRatio) ==
  [model |-> modelId, prompt |-> prompt, image |-> NoValue,
   config |-> [aspectRatio |-> aspectRatio]]
ImageToVideoRequest(modelId, prompt, aspectRatio, imagePath) ==
  [model |-> modelId, prompt |-> prompt,
   image |-> [defined |-> TRUE, imageBytes |-> imagePath, mimeType |-> MimeOf(imagePath)],
   config |-> [aspectRatio |-> aspectRatio]]

\* ------------------------------------------------ operations and responses
Coll(items) == [defined |-> TRUE, items |-> items]
NoColl == [defined |-> FALSE, items |-> << >>]
PlainUri == <<"https://x/y">>
QueryUri == <<"https://x/y", "?", "a=1">>
BareQueryUri == <<"https://x/y", "?">>
NoUri == << >>
Sample(u) == [isNull |-> FALSE, video |-> [defined |-> TRUE, uri |-> u]]
SampleNoVideo == [isNull |-> FALSE, video |-> [defined |-> FALSE, uri |-> NoUri]]
NullSample == [isNull |-> TRUE, video |-> [defined |-> FALSE, uri |-> NoUri]]
Response(gs, gv) == [defined |-> TRUE, generatedSamples |-> gs, generatedVideos |-> gv]
NoResponse == [defined |-> FALSE, generatedSamples |-> NoColl, generatedVideos |-> NoColl]

\* the response payloads a completed operation can carry
DoneResponses ==
  {NoResponse,
   Response(NoColl, NoColl),
   Response(Coll(<<Sample(PlainUri)>>), NoColl),
   Response(NoColl, Coll(<<Sample(QueryUri)>>)),
   Response(Coll(<< >>), Coll(<<Sample(PlainUri)>>)),
   Response(Coll(<<Sample(QueryUri)>>), Coll(<<Sample(PlainUri)>>)),
   Response(Coll(<<SampleNoVideo>>), NoColl),
   Response(Coll(<<Sample(NoUri)>>), Coll(<<Sample(PlainUri)>>)),
   Response(Coll(<<NullSample>>), NoColl),
   Response(Coll(<<Sample(BareQueryUri)>>), NoColl)}

\* the n-th snapshot of an operation: the one generateVideos returns is the
\* 0-th, every getVideosOperation returns the next
Snapshot(n, done, response) ==
  [name |-> [prefix |-> "operations/", seq |-> n], done |-> done, response |-> response]
NoOperation == Snapshot(-1, FALSE, NoResponse)

\* operation.response?.generatedSamples || operation.response?.generatedVideos || []
\* (an array, even an empty one, is truthy)
SelectSamples(response) ==
  IF response.defined /\ response.generatedSamples.defined
  THEN response.generatedSamples.items
  ELSE IF response.defined /\ response.generatedVideos.defined
       THEN response.generatedVideos.items
       ELSE << >>

\* videoUri.includes('?')
Includes(uri, ch) == \E i \in 1..Len(uri) : uri[i] = ch
ApiKey == "GEMINI_API_KEY"
\* mutant: the key always appended with '?'
DownloadUrlQuestionMark(videoUri) == videoUri \o <<"?", "key=", ApiKey>>
\* `${videoUri}${separator}key=${process.env.GEMINI_API_KEY}`
DownloadUrl(videoUri) ==
  LET separator == IF Includes(videoUri, "?") THEN "&" ELSE "?"
  IN videoUri \o <<separator, "key=", ApiKey>>

\* HTTP statuses of the download, and Response.ok
Statuses == {200, 204, 300, 404, 500}
\* resp.statusText
StatusText(status) ==
  CASE status = 200 -> "OK" [] status = 204 -> "No Content"
    [] status = 300 -> "Multiple Choices" [] status = 404 -> "Not Found"
    [] OTHER -> "Internal Server Error"
\* mutant: the !resp.ok check dropped
OkAlways(status) == TRUE
Ok(status) == status >= 200 /\ status <= 299

\* sizes of a downloaded body, in bytes
BodySizes == {0, 1572864}
\* (videoBuffer.length / 1024 / 1024).toFixed(1), in tenths of a megabyte
SizeMb(len) == (len * 10 + 524288) \div 1048576

\* mutant: a do-while loop, which polls once before it looks at done
LoopPollsFirst(operation) == ~operation.done \/ operation.name.seq = 0
\* while (!operation.done)
LoopContinues(operation) == ~operation.done
\* mutant: the budget compared one poll interval late
BudgetExceededLate(elapsed) == elapsed > maxWait + pollInterval
\* if (elapsed > maxWait)
BudgetExceeded(elapsed) == elapsed > maxWait

\* ------------------------------------------------------------------ state
\* calls: every handler invocation with its parameters, its position (pc), its
\*        local variables, what it returned, and counters of the I/O it did
\* now:   the value of Date.now()
\* disk:  the writeFileSync calls that completed, in order
\* net:   the remote side of this run: its latencies and response payloads
VARIABLES calls, now, disk, net
vars == <<calls, now, disk, net>>

Prompts == {"a cat"}
ImageParams ==
  [prompt : Prompts, aspectRatio : {Undefined}, outputFormat : {Undefined, "jpeg"},
   model : {Undefined}, imagePath : {NoPath}]
VideoParams ==
  [prompt : Prompts, aspectRatio : {Undefined}, outputFormat : {Undefined},
   model : {Undefined}, imagePath : ImagePaths]

NewCall(kind, params) ==
  [kind |-> kind, pc |-> "idle", params |-> params,
   \* locals of generateVideo
   request |-> TextToVideoRequest(Undefined, Undefined, Undefined),
   operation |-> NoOperation, startTime |-> 0, elapsed |-> 0, sleepStart |-> 0,
   downloadUrl |-> << >>, status |-> 0,
   \* locals of generateImage
   parts |-> << >>, imageResult |-> NoValue, textResult |-> Undefined,
   \* how the handler ended: "pending", "object" (a response object, its
   \* content in content), "undefined" (fell off the end) or "raised"
   ret |-> "pending", content |-> << >>, outcome |-> "none", thrown |-> "none",
   \* what the call did so far
   seedReads |-> 0, submits |-> 0, sleeps |-> 0, fetches |-> 0, notDonePolls |-> 0,
   downloads |-> 0, bodyReads |-> 0, writes |-> 0,
   submitDone |-> FALSE, fetchKey |-> NoOperation.name, sleptFor |-> 0, fetchTook |-> 0]

AbsentCall == [NewCall("none", CHOOSE p \in ImageParams : TRUE) EXCEPT !.pc = "absent"]

\* the remote side of a run: whether its API calls, its timers and its
\* downloads show latency, whether its completed operations carry any response
\* payload and its generated contents any parts, and the snapshot by which
\* its operations are done at the latest (Never: they may stay pending)
Never == 0 - 1
SimpleResponses == {Response(Coll(<<Sample(PlainUri)>>), NoColl)}
SimpleParts == {<<BinPart("X")>>, <<TxtPart("a")>>, << >>}
SlowRemote ==
  [slowApi |-> TRUE, lateTimers |-> TRUE, slowTransfer |-> FALSE,
   anyResponse |-> FALSE, anyParts |-> TRUE, doneBy |-> Never]
PromptRemote ==
  [slowApi |-> FALSE, lateTimers |-> FALSE, slowTransfer |-> TRUE,
   anyResponse |-> TRUE, anyParts |-> TRUE, doneBy |-> Never]
QuickRemote ==
  [slowApi |-> FALSE, lateTimers |-> FALSE, slowTransfer |-> FALSE,
   anyResponse |-> FALSE, anyParts |-> FALSE, doneBy |-> 1]
StalledRemote == [QuickRemote EXCEPT !.doneBy = Never]

ApiDurations == IF net.slowApi THEN Durations ELSE {0}
TimerLateness == IF net.lateTimers THEN Lateness ELSE {0}
TransferDurations == IF net.slowTransfer THEN Durations ELSE {0}
OperationResponses == IF net.anyResponse THEN DoneResponses ELSE SimpleResponses
ContentParts == IF net.anyParts THEN PartSeqs ELSE SimpleParts

\* the values done can take in the n-th snapshot
DoneValues(n) == IF net.doneBy # Never /\ n >= net.doneBy THEN {TRUE} ELSE BOOLEAN

\* one invocation, of either tool: with every API and timer latency, or with
\* every seed path, response payload and download latency
Init ==
  /\ \E k \in {"image", "video"} :
       \E p \in (IF k = "image" THEN ImageParams ELSE VideoParams) :
         /\ calls = [c \in Calls |-> IF c = "c1" THEN NewCall(k, p) ELSE AbsentCall]
         /\ \/ net = SlowRemote /\ p.imagePath = NoPath
            \/ net = PromptRemote /\ k = "video"
  /\ now = 0
  /\ disk = << >>

DefaultParams(k) ==
  CHOOSE p \in (IF k = "image" THEN ImageParams ELSE VideoParams) :
    p.outputFormat = Undefined /\ p.imagePath = NoPath

\* two invocations in progress at once, on a remote without latency: any two
\* tools when operations are done by their first poll; a video call, with
\* any seed path, and an image call when operations may stay pending or
\* carry any response payload
InitConc ==
  /\ \E k1, k2 \in {"image", "video"} :
       \E p1 \in (IF k1 = "image" THEN ImageParams ELSE VideoParams) :
         /\ calls = [c \in Calls |-> IF c = "c1" THEN NewCall(k1, p1)
                                     ELSE NewCall(k2, DefaultParams(k2))]
         /\ \/ net = QuickRemote /\ p1 = DefaultParams(k1)
            \/ /\ net \in {StalledRemote, [QuickRemote EXCEPT !.anyResponse = TRUE]}
               /\ k1 = "video" /\ k2 = "image"
  /\ now = 0
  /\ disk = << >>

Put(c, r) == calls' = [calls EXCEPT ![c] = r]

\* return { content: [...] }
Return(call, content, outcome) ==
  [call EXCEPT !.pc = "returned", !.ret = "object", !.content = content, !.outcome = outcome]

\* mutant: the error rethrown to the caller
Rethrow(call, head, step) ==
  [call EXCEPT !.pc = "returned", !.ret = "raised", !.thrown = step]
\* catch (error) { return { content: [{ type: "text", text: `<head>${error.message}` }] } }
Catch(call, head, step) ==
  [Return(call, <<TextItem(Template(head, <<ErrorMessage(step).message>>))>>, "Failure")
     EXCEPT !.thrown = step]

ImageErrorHead == "Error generating image: "
VideoErrorHead == "Error generating video: "

\* fs.writeFileSync(filename, buffer), completed
WriteFile(c, filename) == disk' = Append(disk, [file |-> filename, by |-> c])

\* ------------------------------------------------------ generateImage
\* the handler runs up to  await model.generateContent(prompt)
IStart(c) ==
  /\ calls[c].pc = "idle" /\ calls[c].kind = "image"
  /\ Put(c, [calls[c] EXCEPT !.pc = "generating"])
  /\ UNCHANGED <<now, disk, net>>

\* generateContent rejects, or the response has no candidates[0].content.parts
IGenerateThrows(c) ==
  /\ calls[c].pc = "generating"
  /\ \E d \in ApiDurations : now' = now + d
  /\ Put(c, Catch(calls[c], ImageErrorHead, "generateContent"))
  /\ UNCHANGED <<disk, net>>

\* mutant: the text branch is tested before the image branch
IRespondTextFirst(call, c, parts, t) ==
  LET r == ExtractResult(parts)
      outputFormat == OrDefault(call.params.outputFormat, "png")
      scanned == [call EXCEPT !.parts = parts, !.imageResult = r.imageResult,
                              !.textResult = r.textResult]
  IN IF r.textResult # Undefined /\ r.textResult # ""
     THEN /\ UNCHANGED disk
          /\ Put(c, Return(scanned, <<TextItem(r.textResult)>>, "Text"))
     ELSE IF r.imageResult.defined
          THEN /\ WriteFile(c, ImageFilename(t, outputFormat))
               /\ Put(c, Return([scanned EXCEPT !.writes = @ + 1],
                                <<ImageItem(r.imageResult.data, <<"image/", outputFormat>>)>>,
                                "Image"))
          ELSE /\ UNCHANGED disk
               /\ Put(c, [scanned EXCEPT !.pc = "returned", !.ret = "undefined"])

\* mutant: the fall-through returns an explicit empty-result text
IRespondExplicitEmpty(call, c, parts, t) ==
  LET r == ExtractResult(parts)
      outputFormat == OrDefault(call.params.outputFormat, "png")
      scanned == [call EXCEPT !.parts = parts, !.imageResult = r.imageResult,
                              !.textResult = r.textResult]
  IN IF r.imageResult.defined
     THEN /\ WriteFile(c, ImageFilename(t, outputFormat))
          /\ Put(c, Return([scanned EXCEPT !.writes = @ + 1],
                           <<ImageItem(r.imageResult.data, <<"image/", outputFormat>>)>>,
                           "Image"))
     ELSE /\ UNCHANGED disk
          /\ IF r.textResult # Undefined /\ r.textResult # ""
             THEN Put(c, Return(scanned, <<TextItem(r.textResult)>>, "Text"))
             ELSE Put(c, Return(scanned, <<TextItem("")>>, "EmptyResult"))

\* what the handler does with the parts of the response: the scan, then the
\* image branch (the write completes), the text branch or the fall-through
IRespond(call, c, parts, t) ==
  LET r == ExtractResult(parts)
      outputFormat == OrDefault(call.params.outputFormat, "png")
      scanned == [call EXCEPT !.parts = parts, !.imageResult = r.imageResult,
                              !.textResult = r.textResult]
  IN IF r.imageResult.defined
     THEN /\ WriteFile(c, ImageFilename(t, outputFormat))
          /\ Put(c, Return([scanned EXCEPT !.writes = @ + 1],
                           <<ImageItem(r.imageResult.data, <<"image/", outputFormat>>)>>,
                           "Image"))
     ELSE /\ UNCHANGED disk
          /\ IF r.textResult # Undefined /\ r.textResult # ""
             THEN Put(c, Return(scanned, <<TextItem(r.textResult)>>, "Text"))
             ELSE Put(c, [scanned EXCEPT !.pc = "returned", !.ret = "undefined"])

IGenerateReturns(c) ==
  /\ calls[c].pc = "generating"
  /\ \E d \in ApiDurations, parts \in ContentParts :
       /\ now' = now + d
       /\ IRespond(calls[c], c, parts, now')
  /\ UNCHANGED net

\* an image part was found and Buffer.from or writeFileSync throws
IWriteThrows(c) ==
  /\ calls[c].pc = "generating"
  /\ \E d \in ApiDurations, parts \in ContentParts :
       LET r == ExtractResult(parts)
       IN /\ r.imageResult.defined
          /\ now' = now + d
          /\ Put(c, Catch([calls[c] EXCEPT !.parts = parts, !.imageResult = r.imageResult,
                                           !.textResult = r.textResult],
                          ImageErrorHead, "writeFileSync"))
  /\ UNCHANGED <<disk, net>>

\* ------------------------------------------------------ generateVideo
AspectRatio(call) == OrDefault(call.params.aspectRatio, "9:16")
ModelId(call) == OrDefault(call.params.model, "veo-3.0-generate-001")

\* image-to-video: the seed image is read and generateVideos is called with it
VSubmitWithImage(c) ==
  /\ calls[c].pc = "idle" /\ calls[c].kind = "video"
  /\ UsesSeedImage(calls[c].params.imagePath)
  /\ ~readFileThrows(calls[c].params.imagePath)
  /\ Put(c, [calls[c] EXCEPT
               !.pc = "submitting", !.seedReads = @ + 1, !.submits = @ + 1,
               !.request = ImageToVideoRequest(ModelId(calls[c]), calls[c].params.prompt,
                                               AspectRatio(calls[c]),
                                               calls[c].params.imagePath)])
  /\ UNCHANGED <<now, disk, net>>

\* the seed path exists and readFileSync throws
VSeedReadThrows(c) ==
  /\ calls[c].pc = "idle" /\ calls[c].kind = "video"
  /\ UsesSeedImage(calls[c].params.imagePath)
  /\ readFileThrows(calls[c].params.imagePath)
  /\ Put(c, Catch([calls[c] EXCEPT !.seedReads = @ + 1], VideoErrorHead, "readFileSync"))
  /\ UNCHANGED <<now, disk, net>>

\* text-to-video: no usable seed path
VSubmitText(c) ==
  /\ calls[c].pc = "idle" /\ calls[c].kind = "video"
  /\ ~UsesSeedImage(calls[c].params.imagePath)
  /\ Put(c, [calls[c] EXCEPT
               !.pc = "submitting", !.submits = @ + 1,
               !.request = TextToVideoRequest(ModelId(calls[c]), calls[c].params.prompt,
                                              AspectRatio(calls[c]))])
  /\ UNCHANGED <<now, disk, net>>

\* generateVideos resolves with the first snapshot; startTime = Date.now()
VSubmitReturns(c) ==
  /\ calls[c].pc = "submitting"
  /\ \E d \in ApiDurations, done \in DoneValues(0) :
       \E response \in (IF done THEN OperationResponses ELSE {NoResponse}) :
         /\ now' = now + d
         /\ Put(c, [calls[c] EXCEPT !.pc = "polling",
                                    !.operation = Snapshot(0, done, response),
                                    !.submitDone = done,
                                    !.startTime = now'])
  /\ UNCHANGED <<disk, net>>

VSubmitThrows(c) ==
  /\ calls[c].pc = "submitting"
  /\ \E d \in ApiDurations : now' = now + d
  /\ Put(c, Catch(calls[c], VideoErrorHead, "generateVideos"))
  /\ UNCHANGED <<disk, net>>

\* the loop condition is false: the held snapshot is done
VLoopExit(c) ==
  /\ calls[c].pc = "polling"
  /\ ~LoopContinues(calls[c].operation)
  /\ Put(c, [calls[c] EXCEPT !.pc = "done"])
  /\ UNCHANGED <<now, disk, net>>

TimeoutHead == "Video generation timed out after 5 minutes. Operation: "

\* mutant: the budget is checked before the loop condition
VTimeOutIgnoringDone(c) ==
  /\ calls[c].pc = "polling"
  /\ LET elapsed == now - calls[c].startTime
     IN /\ BudgetExceeded(elapsed)
        /\ Put(c, Return([calls[c] EXCEPT !.elapsed = elapsed],
                         <<TextItem(Template(TimeoutHead, <<calls[c].operation.name>>))>>,
                         "TimedOut"))
  /\ UNCHANGED <<now, disk, net>>

\* mutant: the timed-out response names the snapshot the last poll was keyed by
VTimeOutStaleName(c) ==
  /\ calls[c].pc = "polling"
  /\ LoopContinues(calls[c].operation)
  /\ LET elapsed == now - calls[c].startTime
     IN /\ BudgetExceeded(elapsed)
        /\ Put(c, Return([calls[c] EXCEPT !.elapsed = elapsed],
                         <<TextItem(Template(TimeoutHead, <<calls[c].fetchKey>>))>>,
                         "TimedOut"))
  /\ UNCHANGED <<now, disk, net>>

\* elapsed > maxWait: the timed-out response
VTimeOut(c) ==
  /\ calls[c].pc = "polling"
  /\ LoopContinues(calls[c].operation)
  /\ LET elapsed == now - calls[c].startTime
     IN /\ BudgetExceeded(elapsed)
        /\ Put(c, Return([calls[c] EXCEPT !.elapsed = elapsed],
                         <<TextItem(Template(TimeoutHead, <<calls[c].operation.name>>))>>,
                         "TimedOut"))
  /\ UNCHANGED <<now, disk, net>>

\* within budget: setTimeout(resolve, pollInterval) is started
VSleep(c) ==
  /\ calls[c].pc = "polling"
  /\ LoopContinues(calls[c].operation)
  /\ LET elapsed == now - calls[c].startTime
     IN /\ ~BudgetExceeded(elapsed)
        /\ Put(c, [calls[c] EXCEPT !.pc = "sleeping", !.elapsed = elapsed,
                                   !.sleepStart = now,
                                   !.sleeps = @ + 1])
  /\ UNCHANGED <<now, disk, net>>

\* mutant: setTimeout(resolve, 0), the sleep takes no time
VWakeAtOnce(c) ==
  /\ calls[c].pc = "sleeping"
  /\ \E late \in TimerLateness :
       /\ now' = now + late
       /\ Put(c, [calls[c] EXCEPT !.pc = "fetching",
                                  !.sleptFor = now' - calls[c].sleepStart,
                                  !.fetchKey = calls[c].operation.name])
  /\ UNCHANGED <<disk, net>>

\* mutant: every poll is keyed by the snapshot the submission returned
VWakeKeyedByFirst(c) ==
  /\ calls[c].pc = "sleeping"
  /\ \E late \in TimerLateness :
       /\ now' = Max(now, calls[c].sleepStart + pollInterval) + late
       /\ Put(c, [calls[c] EXCEPT !.pc = "fetching",
                                  !.sleptFor = now' - calls[c].sleepStart,
                                  !.fetchKey = Snapshot(0, FALSE, NoResponse).name])
  /\ UNCHANGED <<disk, net>>

\* the timer fires, no earlier than pollInterval after it was set, and
\* getVideosOperation({ operation }) is called with the held snapshot
VWake(c) ==
  /\ calls[c].pc = "sleeping"
  /\ \E late \in TimerLateness :
       /\ now' = Max(now, calls[c].sleepStart + pollInterval) + late
       /\ Put(c, [calls[c] EXCEPT !.pc = "fetching",
                                  !.sleptFor = now' - calls[c].sleepStart,
                                  !.fetchKey = calls[c].operation.name])
  /\ UNCHANGED <<disk, net>>

\* getVideosOperation resolves with a fresh snapshot, which replaces the held one
VPollReturns(c) ==
  /\ calls[c].pc = "fetching"
  /\ \E d \in ApiDurations, done \in DoneValues(calls[c].fetches + 1) :
       \E response \in (IF done THEN OperationResponses ELSE {NoResponse}) :
         /\ now' = now + d
         /\ Put(c, [calls[c] EXCEPT
                      !.pc = "polling",
                      !.operation = Snapshot(calls[c].fetches + 1, done, response),
                      !.fetches = @ + 1,
                      !.notDonePolls = IF done THEN @ ELSE @ + 1,
                      !.fetchTook = d])
  /\ UNCHANGED <<disk, net>>

VPollThrows(c) ==
  /\ calls[c].pc = "fetching"
  /\ \E d \in ApiDurations :
       /\ now' = now + d
       /\ Put(c, Catch([calls[c] EXCEPT !.fetches = @ + 1, !.fetchTook = d],
                       VideoErrorHead, "getVideosOperation"))
  /\ UNCHANGED <<disk, net>>

\* samples.length > 0 and samples[0].video?.uri is truthy
HasVideoUri(samples) ==
  /\ Len(samples) > 0
  /\ ~samples[1].isNull
  /\ samples[1].video.defined
  /\ samples[1].video.uri # NoUri

\* a sample with a video URI: fetch(downloadUrl) is called
VDownload(c) ==
  /\ calls[c].pc = "done"
  /\ LET samples == SelectSamples(calls[c].operation.response)
     IN /\ HasVideoUri(samples)
        /\ Put(c, [calls[c] EXCEPT !.pc = "downloading", !.downloads = @ + 1,
                                   !.downloadUrl = DownloadUrl(samples[1].video.uri)])
  /\ UNCHANGED <<now, disk, net>>

\* samples[0] is null: sample.video throws a TypeError
VExtractThrows(c) ==
  /\ calls[c].pc = "done"
  /\ LET samples == SelectSamples(calls[c].operation.response)
     IN /\ Len(samples) > 0 /\ samples[1].isNull
        /\ Put(c, Catch(calls[c], VideoErrorHead, "sample.video"))
  /\ UNCHANGED <<now, disk, net>>

EmptyResultHead == "Video generation completed but no video was returned. Response: "

\* no sample or no URI: the empty-result response
VEmptyResult(c) ==
  /\ calls[c].pc = "done"
  /\ LET samples == SelectSamples(calls[c].operation.response)
     IN /\ ~HasVideoUri(samples)
        /\ ~(Len(samples) > 0 /\ samples[1].isNull)
        /\ Put(c, Return(calls[c],
                         <<TextItem(Template(EmptyResultHead,
                                             <<JSONStringify(calls[c].operation.response)>>))>>,
                         "EmptyResult"))
  /\ UNCHANGED <<now, disk, net>>

DownloadFailedHead == "Failed to download video: "

\* fetch resolves with a success status: resp.arrayBuffer() is awaited
VDownloadOk(c) ==
  /\ calls[c].pc = "downloading"
  /\ \E d \in TransferDurations, status \in Statuses :
       /\ Ok(status)
       /\ now' = now + d
       /\ Put(c, [calls[c] EXCEPT !.pc = "reading", !.status = status,
                                  !.bodyReads = @ + 1])
  /\ UNCHANGED <<disk, net>>

\* mutant: the body is awaited before resp.ok is looked at
VDownloadNotOkReadsBody(c) ==
  /\ calls[c].pc = "downloading"
  /\ \E d \in TransferDurations, status \in Statuses :
       /\ ~Ok(status)
       /\ now' = now + d
       /\ Put(c, Return([calls[c] EXCEPT !.status = status, !.bodyReads = @ + 1],
                        <<TextItem(Template(DownloadFailedHead,
                                            <<status, StatusText(status)>>))>>,
                        "DownloadFailure"))
  /\ UNCHANGED <<disk, net>>

\* fetch resolves with !resp.ok: the download-failure response
VDownloadNotOk(c) ==
  /\ calls[c].pc = "downloading"
  /\ \E d \in TransferDurations, status \in Statuses :
       /\ ~Ok(status)
       /\ now' = now + d
       /\ Put(c, Return([calls[c] EXCEPT !.status = status],
                        <<TextItem(Template(DownloadFailedHead,
                                            <<status, StatusText(status)>>))>>,
                        "DownloadFailure"))
  /\ UNCHANGED <<disk, net>>

VDownloadThrows(c) ==
  /\ calls[c].pc = "downloading"
  /\ \E d \in TransferDurations : now' = now + d
  /\ Put(c, Catch(calls[c], VideoErrorHead, "fetch"))
  /\ UNCHANGED <<disk, net>>

\* the body arrives, is written to gemini-video-<Date.now()>.mp4 and the
\* success response is returned
VSave(c) ==
  /\ calls[c].pc = "reading"
  /\ \E d \in TransferDurations, len \in BodySizes :
       /\ now' = now + d
       /\ WriteFile(c, VideoFilename(now'))
       /\ Put(c, Return([calls[c] EXCEPT !.writes = @ + 1],
                        <<TextItem(JSONStringify(
                             [status |-> "success", file |-> VideoFilename(now'),
                              size_mb |-> SizeMb(len), model |-> ModelId(calls[c]),
                              aspectRatio |-> AspectRatio(calls[c])]))>>,
                        "Success"))
  /\ UNCHANGED net

VBodyThrows(c) ==
  /\ calls[c].pc = "reading"
  /\ \E d \in TransferDurations : now' = now + d
  /\ Put(c, Catch(calls[c], VideoErrorHead, "arrayBuffer"))
  /\ UNCHANGED <<disk, net>>

VWriteThrows(c) ==
  /\ calls[c].pc = "reading"
  /\ \E d \in TransferDurations : now' = now + d
  /\ Put(c, Catch(calls[c], VideoErrorHead, "writeFileSync"))
  /\ UNCHANGED <<disk, net>>

\* ------------------------------------------------------- specifications
\* a step of the invocation c
Step(c) ==
    \/ IStart(c) \/ IGenerateThrows(c) \/ IGenerateReturns(c) \/ IWriteThrows(c)
    \/ VSubmitWithImage(c) \/ VSeedReadThrows(c) \/ VSubmitText(c)
    \/ VSubmitReturns(c) \/ VSubmitThrows(c)
    \/ VLoopExit(c) \/ VTimeOut(c) \/ VSleep(c) \/ VWake(c)
    \/ VPollReturns(c) \/ VPollThrows(c)
    \/ VDownload(c) \/ VExtractThrows(c) \/ VEmptyResult(c)
    \/ VDownloadOk(c) \/ VDownloadNotOk(c) \/ VDownloadThrows(c)
    \/ VSave(c) \/ VBodyThrows(c) \/ VWriteThrows(c)

Next == \E c \in Calls : Step(c)

Spec == Init /\ [][Next]_vars
SpecConc == InitConc /\ [][Next]_vars
\* one invocation as in Init, the contents generated for generateImage
\* limited to the three simple ones
InitLive ==
  /\ \E k \in {"image", "video"} :
       \E p \in (IF k = "image" THEN ImageParams ELSE VideoParams) :
         /\ calls = [c \in Calls |-> IF c = "c1" THEN NewCall(k, p) ELSE AbsentCall]
         /\ \/ net = [SlowRemote EXCEPT !.anyParts = FALSE] /\ p.imagePath = NoPath
            \/ net = PromptRemote /\ k = "video"
  /\ now = 0
  /\ disk = << >>

\* every await of a call in progress settles and the handler then runs on
SpecLive == InitLive /\ [][Next]_vars /\ \A c \in Calls : WF_vars(Step(c))

\* ---------------------------------------------------------- properties
VideoCalls == {c \in Calls : calls[c].kind = "video"}
ImageCalls == {c \in Calls : calls[c].kind = "image"}
WritesBy(c) == {i \in DOMAIN disk : disk[i].by = c}
FailedOutcomes == {"TimedOut", "EmptyResult", "DownloadFailure", "Failure"}

\* C1: a generateVideo call completes at most one file write; it has
\* completed one only when it ends in Success (the operation done, the
\* download answered with a 2xx status); a call that ended as timed out, empty
\* result, download failure or caught exception completed none.
C1_WriteOnlyOnSuccess ==
  \A c \in VideoCalls :
    /\ calls[c].writes <= 1
    /\ Cardinality(WritesBy(c)) = calls[c].writes
    /\ calls[c].writes = 1 =>
         /\ calls[c].outcome = "Success"
         /\ calls[c].operation.done
         /\ calls[c].status \in 200..299
    /\ calls[c].outcome \in FailedOutcomes => calls[c].writes = 0 /\ WritesBy(c) = {}

C1_Witness ==
  \E c \in VideoCalls :
    calls[c].outcome = "Success" /\ calls[c].writes = 1 /\ calls[c].fetches = 2

\* C2 as stated: a call that left the polling loop in the Done state, after N
\* polls that reported done=false and one that reported done=true, has made
\* exactly N+1 poll-fetch calls.
C2_ExactlyNPlusOneFetches ==
  \A c \in VideoCalls :
    calls[c].pc = "done" => calls[c].fetches = calls[c].notDonePolls + 1

\* C2 amended: when the snapshot returned by the submission is not done, a
\* call that left the loop in Done made exactly N+1 poll-fetches, N of them
\* not done and the last one done; when the submission's snapshot is already
\* done it made none; and a call that timed out never fetched a done snapshot.
C2_FetchesUntilDone ==
  \A c \in VideoCalls :
    /\ (calls[c].pc = "done" /\ ~calls[c].submitDone) =>
         /\ calls[c].fetches = calls[c].notDonePolls + 1
         /\ calls[c].operation.done
         /\ calls[c].operation.name.seq = calls[c].fetches
    /\ (calls[c].pc = "done" /\ calls[c].submitDone) =>
         calls[c].fetches = 0 /\ calls[c].sleeps = 0
    /\ calls[c].outcome = "TimedOut" =>
         /\ ~calls[c].submitDone
         /\ calls[c].fetches = calls[c].notDonePolls
         /\ calls[c].elapsed > maxWait

C2_Witness ==
  \E c \in VideoCalls :
    /\ calls[c].pc = "done" /\ ~calls[c].submitDone
    /\ calls[c].notDonePolls = 2 /\ calls[c].fetches = 3

\* a call none of whose snapshots was done and in which nothing threw
NeverDone(c) ==
  /\ ~calls[c].submitDone
  /\ calls[c].notDonePolls = calls[c].fetches
  /\ calls[c].thrown = "none"

\* C3 as stated: at the moment the timeout is returned, the time elapsed since
\* the loop began is at most the budget plus one poll interval.
C3_WithinBudgetPlusInterval ==
  \A c \in VideoCalls :
    calls[c].outcome = "TimedOut" => calls[c].elapsed <= maxWait + pollInterval

\* C3 amended: a call whose operation never reports done ends, when it ends,
\* as timed out with no file written; the elapsed time then exceeds the budget
\* by at most the time the last iteration took (its sleep, as late as the timer
\* fired, and its poll-fetch), which is one poll interval only when the
\* poll-fetch and the timer add nothing.
C3_TimeoutBound ==
  \A c \in VideoCalls :
    /\ (calls[c].pc = "returned" /\ NeverDone(c)) => calls[c].outcome = "TimedOut"
    /\ calls[c].outcome = "TimedOut" =>
         /\ NeverDone(c)
         /\ calls[c].writes = 0 /\ WritesBy(c) = {}
         /\ calls[c].elapsed > maxWait
         /\ calls[c].elapsed <= maxWait + calls[c].sleptFor + calls[c].fetchTook
         /\ calls[c].sleptFor >= pollInterval
         /\ (calls[c].sleptFor = pollInterval /\ calls[c].fetchTook = 0) =>
              calls[c].elapsed <= maxWait + pollInterval

C3_Witness ==
  \E c \in VideoCalls :
    /\ calls[c].outcome = "TimedOut"
    /\ calls[c].fetchTook > 0
    /\ calls[c].elapsed > maxWait + pollInterval

\* the first non-empty collection, generatedSamples before generatedVideos
FirstNonEmpty(response) ==
  IF response.defined /\ response.generatedSamples.defined
     /\ Len(response.generatedSamples.items) > 0
  THEN response.generatedSamples.items
  ELSE IF response.defined /\ response.generatedVideos.defined
          /\ Len(response.generatedVideos.items) > 0
       THEN response.generatedVideos.items
       ELSE << >>

CarriesUri(samples) ==
  Len(samples) > 0 /\ ~samples[1].isNull /\ samples[1].video.defined
  /\ samples[1].video.uri # << >>

\* C4: the first non-empty collection among generatedSamples, generatedVideos
\* is the one used: a call ends in the empty-result outcome only when the first
\* sample of that collection carries no video URI, and a download is of the URI
\* of that sample.
C4_FirstNonEmptyWins ==
  \A c \in VideoCalls :
    LET samples == FirstNonEmpty(calls[c].operation.response)
    IN /\ calls[c].outcome = "EmptyResult" => ~CarriesUri(samples)
       /\ calls[c].downloads = 1 =>
            /\ CarriesUri(samples)
            /\ SubSeq(calls[c].downloadUrl, 1, Len(samples[1].video.uri))
                 = samples[1].video.uri

Throwers ==
  {"readFileSync", "generateVideos", "getVideosOperation", "sample.video", "fetch",
   "arrayBuffer", "writeFileSync"}

\* C5: an exception thrown at any step of generateVideo (seed-image read,
\* submission, poll-fetch, sample access, download, body read, file write) ends
\* the call with a returned response of one text item carrying the error's
\* message; no call ends by raising to its caller.
C5_ExceptionsBecomeResponses ==
  \A c \in VideoCalls :
    /\ calls[c].ret # "raised"
    /\ calls[c].thrown # "none" =>
         /\ calls[c].thrown \in Throwers
         /\ calls[c].pc = "returned" /\ calls[c].ret = "object"
         /\ calls[c].content =
              <<[type |-> "text",
                 text |-> [encoding |-> "plain", head |-> "Error generating video: ",
                           args |-> <<calls[c].thrown>>]]>>

C5_Witness ==
  \E c \in VideoCalls :
    /\ calls[c].thrown = "arrayBuffer" /\ calls[c].ret = "object"
    /\ calls[c].fetches = 1 /\ calls[c].bodyReads = 1

\* C6 as stated: the one text item of every returned generateVideo response
\* is a JSON encoding, whatever the outcome.
C6_AlwaysJson ==
  \A c \in VideoCalls :
    calls[c].pc = "returned" =>
      /\ Len(calls[c].content) = 1
      /\ calls[c].content[1].type = "text"
      /\ calls[c].content[1].text.encoding = "json"

OutcomeHead(outcome) ==
  CASE outcome = "Success" -> "{"
    [] outcome = "TimedOut" -> "Video generation timed out after 5 minutes. Operation: "
    [] outcome = "EmptyResult" ->
         "Video generation completed but no video was returned. Response: "
    [] outcome = "DownloadFailure" -> "Failed to download video: "
    [] outcome = "Failure" -> "Error generating video: "
    [] OTHER -> "?"

\* C6 amended: every generateVideo call that ends returns a response with
\* exactly one content item, of type text, for exactly one of the outcomes
\* Success, timed out, empty result, download failure, caught exception; the
\* text is a JSON encoding (of the success object) only for Success, and a
\* plain message whose wording tells the outcome for the four others.
C6_OneTextItemPerOutcome ==
  \A c \in VideoCalls :
    calls[c].pc = "returned" =>
      /\ calls[c].ret = "object"
      /\ Len(calls[c].content) = 1
      /\ calls[c].content[1].type = "text"
      /\ calls[c].outcome \in {"Success"} \cup FailedOutcomes
      /\ calls[c].content[1].text.head = OutcomeHead(calls[c].outcome)
      /\ calls[c].content[1].text.encoding = "json" <=> calls[c].outcome = "Success"
      /\ calls[c].outcome = "Success" => calls[c].content[1].text.args.status = "success"

C6_Witness ==
  \E c \in VideoCalls :
    /\ calls[c].pc = "returned" /\ calls[c].outcome = "TimedOut"
    /\ calls[c].content[1].text.encoding = "plain"

\* C7: a generateVideo call whose imagePath names nothing that exists reads
\* no seed image, submits the text-to-video request a call without imagePath
\* submits (no image field), and never ends with the seed read's error.
C7_MissingSeedIsNoSeed ==
  \A c \in VideoCalls :
    calls[c].params.imagePath \notin (RegularFiles \cup Directories) =>
      /\ calls[c].seedReads = 0
      /\ calls[c].thrown # "readFileSync"
      /\ calls[c].pc # "idle" =>
           /\ calls[c].submits = 1
           /\ calls[c].request =
                [model |-> "veo-3.0-generate-001", prompt |-> calls[c].params.prompt,
                 image |-> [defined |-> FALSE], config |-> [aspectRatio |-> "9:16"]]

C7_Witness ==
  \E c \in VideoCalls :
    /\ calls[c].params.imagePath = MissingPath
    /\ calls[c].outcome = "Success"

\* the index of the last part of parts that satisfies P, 0 when there is none
LastWhere(parts, P(_)) ==
  IF \E i \in DOMAIN parts : P(parts[i])
  THEN CHOOSE i \in DOMAIN parts : P(parts[i]) /\ \A j \in DOMAIN parts : j > i => ~P(parts[j])
  ELSE 0

IsBinary(part) == part.inlineData.defined
IsNonEmptyText(part) == ~part.inlineData.defined /\ part.text \notin {Undefined, ""}
IsText(part) == ~part.inlineData.defined /\ part.text # Undefined

\* a generateImage call that received its parts
GotParts(c) == calls[c].pc = "returned" /\ calls[c].thrown # "generateContent"

TextOnly(parts) == Len(parts) > 0 /\ \A i \in DOMAIN parts : IsText(parts[i])

\* C9 as stated: for parts that are all text parts the handler returns the
\* text of the last part as the text response, the empty string included.
C9_LastTextWins ==
  \A c \in ImageCalls :
    (GotParts(c) /\ TextOnly(calls[c].parts)) =>
      /\ calls[c].ret = "object"
      /\ calls[c].content =
           <<[type |-> "text", text |-> calls[c].parts[Len(calls[c].parts)].text]>>

\* C9 amended: for parts that are all text parts the scan holds the text of
\* the last part whose text is not the empty string, and the handler returns
\* it as the text response; when every text is empty the handler returns
\* nothing. No file is written.
C9_LastNonEmptyTextWins ==
  \A c \in ImageCalls :
    (GotParts(c) /\ TextOnly(calls[c].parts)) =>
      LET k == LastWhere(calls[c].parts, IsNonEmptyText)
      IN /\ calls[c].writes = 0 /\ WritesBy(c) = {}
         /\ k > 0 =>
              /\ calls[c].textResult = calls[c].parts[k].text
              /\ calls[c].ret = "object"
              /\ calls[c].content = <<[type |-> "text", text |-> calls[c].parts[k].text]>>
         /\ k = 0 => calls[c].ret = "undefined" /\ calls[c].content = << >>

C9_Witness ==
  \E c \in ImageCalls :
    /\ GotParts(c)
    /\ calls[c].parts = <<TxtPart("a"), TxtPart("b"), TxtPart("")>>
    /\ calls[c].content = <<[type |-> "text", text |-> "b"]>>

\* C10: no two completed file writes, of any calls, went to the same file.
C10_UniqueFilenames ==
  \A i, j \in DOMAIN disk : i # j => disk[i].file # disk[j].file

UpperOf(ch) ==
  CASE ch = "j" -> "J" [] ch = "p" -> "P" [] ch = "e" -> "E" [] ch = "g" -> "G"
    [] OTHER -> ch

\* p ends with the extension ext, written in any case, after a name that is
\* not empty (the "." is neither the first character of p nor follows a "/")
EndsWithExtension(p, ext) ==
  /\ Len(p) > Len(ext)
  /\ p[Len(p) - Len(ext)] # "/"
  /\ \A i \in 1..Len(ext) : p[Len(p) - Len(ext) + i] \in {ext[i], UpperOf(ext[i])}

HasJpegExtension(p) ==
  \/ EndsWithExtension(p, <<".", "j", "p", "g">>)
  \/ EndsWithExtension(p, <<".", "j", "p", "e", "g">>)

\* C11: a generateVideo call submits a seed image exactly when its imagePath
\* names a file that exists and can be read, and the image's mimeType is
\* image/jpeg when the path's extension is .jpg or .jpeg in any case, and
\* image/png for every other extension and for none.
C11_MimeFromExtension ==
  \A c \in VideoCalls :
    LET p == calls[c].params.imagePath
    IN /\ calls[c].request.image.defined =>
            /\ p \in RegularFiles
            /\ calls[c].seedReads = 1
            /\ calls[c].request.image.mimeType =
                 IF HasJpegExtension(p) THEN "image/jpeg" ELSE "image/png"
       /\ (p \in RegularFiles /\ calls[c].pc # "idle") => calls[c].request.image.defined

C11_Witness ==
  \E c \in VideoCalls :
    /\ calls[c].params.imagePath = UpperJpgPath
    /\ calls[c].pc = "submitting"
    /\ calls[c].request.image.mimeType = "image/jpeg"

CountOf(s, ch) == Cardinality({i \in DOMAIN s : s[i] = ch})

\* the URI of the sample the handler downloads
VideoUri(c) == SelectSamples(calls[c].operation.response)[1].video.uri

\* C12: the download URL is the video URI followed by the key parameter,
\* appended with '&' when the URI contains a '?' and with '?' otherwise; for a
\* URI with at most one '?' the URL has exactly one.
C12_KeySeparator ==
  \A c \in VideoCalls :
    calls[c].downloads = 1 =>
      LET uri == VideoUri(c)
          url == calls[c].downloadUrl
      IN /\ url = uri \o <<(IF CountOf(uri, "?") > 0 THEN "&" ELSE "?"),
                          "key=", "GEMINI_API_KEY">>
         /\ CountOf(uri, "?") <= 1 => CountOf(url, "?") = 1

C12_Witness ==
  \E c \in VideoCalls :
    /\ calls[c].downloads = 1
    /\ calls[c].downloadUrl = <<"https://x/y", "?", "a=1", "&", "key=", "GEMINI_API_KEY">>

\* C13: the done check comes before the timeout check. A call times out only
\* while the snapshot it holds is not done and the elapsed time is strictly
\* above the budget; holding a done snapshot, at whatever time, its next step
\* is to Done, without a sleep or a poll-fetch; a call whose submission
\* returned a done snapshot never sleeps and never poll-fetches.
C13_DoneBeforeTimeout ==
  /\ [](\A c \in VideoCalls :
          /\ calls[c].outcome = "TimedOut" =>
               ~calls[c].operation.done /\ calls[c].elapsed > maxWait
          /\ calls[c].pc \in {"sleeping", "fetching"} =>
               ~calls[c].operation.done /\ calls[c].elapsed <= maxWait
          /\ calls[c].submitDone => calls[c].sleeps = 0 /\ calls[c].fetches = 0)
  /\ [][\A c \in Calls :
          (calls[c].pc = "polling" /\ calls[c].operation.done /\ calls'[c] # calls[c]) =>
             /\ calls'[c].pc = "done"
             /\ calls'[c].outcome = "none"
             /\ calls'[c].sleeps = calls[c].sleeps
             /\ calls'[c].fetches = calls[c].fetches]_vars

\* a done snapshot that arrived after the deadline, taken to Done
C13_Witness ==
  \E c \in VideoCalls :
    /\ calls[c].pc = "done"
    /\ calls[c].fetches > 0
    /\ now - calls[c].startTime > maxWait

\* C14 (as stated): the timed-out response carries the name of the held
\* snapshot and the elapsed time measured at the timeout check.
C14_NameAndElapsed ==
  \A c \in VideoCalls :
    calls[c].outcome = "TimedOut" =>
      LET args == calls[c].content[1].text.args
      IN /\ args[1] = calls[c].operation.name
         /\ Len(args) >= 2
         /\ \E i \in 2..Len(args) : args[i] = calls[c].elapsed

\* C14: the timed-out response is the fixed wording "timed out after 5
\* minutes" followed by the name of the snapshot fetched last (that of the
\* submission when nothing was fetched) and by nothing else; the elapsed time
\* measured at the check, above the budget, is not part of it.
C14_NameOnly ==
  \A c \in VideoCalls :
    calls[c].outcome = "TimedOut" =>
      /\ calls[c].content =
           <<TextItem(Template(TimeoutHead, <<calls[c].operation.name>>))>>
      /\ calls[c].operation.name.seq = calls[c].fetches
      /\ Len(calls[c].content[1].text.args) = 1
      /\ calls[c].elapsed > maxWait

C14_Witness ==
  \E c \in VideoCalls :
    /\ calls[c].outcome = "TimedOut"
    /\ calls[c].fetches > 0
    /\ calls[c].content[1].text.args = <<Snapshot(calls[c].fetches, FALSE, NoResponse).name>>

\* the awaits of generateVideo, in program order
InLoop == {"polling", "sleeping", "fetching"}
BeforeDone == {"idle", "submitting"} \cup InLoop

\* the order of the poll-fetches, the download and the write of the call c:
\* each poll-fetch follows one more sleep, is keyed by the name of the
\* snapshot held when it is issued, and its result becomes the held snapshot;
\* at most one download is issued, after the loop was left with a done
\* snapshot; at most one write is made, after that download returned a 2xx
\* status and its body was read
PollsDownloadWriteInOrder(c) ==
  LET call == calls[c]
  IN /\ call.submits <= 1
     /\ call.submits = 0 => call.operation = NoOperation /\ call.sleeps = 0
     /\ call.sleeps = call.fetches + (IF call.pc \in {"sleeping", "fetching"} THEN 1 ELSE 0)
     /\ call.pc = "fetching" =>
          call.fetchKey = call.operation.name /\ call.operation.name.seq = call.fetches
     /\ (call.fetches > 0 /\ call.pc # "fetching") =>
          /\ call.fetchKey.seq = call.fetches - 1
          /\ call.thrown # "getVideosOperation" => call.operation.name.seq = call.fetches
     /\ call.downloads <= 1
     /\ call.pc \in BeforeDone \cup {"done"} => call.downloads = 0
     /\ call.downloads = 1 =>
          call.submits = 1 /\ call.operation.done /\ call.sleeps = call.fetches
     /\ call.writes <= 1 /\ call.bodyReads <= 1
     /\ call.writes = 1 =>
          call.downloads = 1 /\ call.bodyReads = 1 /\ call.status \div 100 = 2
     /\ call.writes = Cardinality(WritesBy(c))

\* C15 (as stated): every call makes exactly one submission, and then its
\* poll-fetches, download and write in order.
C15_ExactlyOneSubmission ==
  \A c \in VideoCalls :
    /\ PollsDownloadWriteInOrder(c)
    /\ calls[c].pc # "idle" => calls[c].submits = 1

\* C15: the I/O of one generateVideo call is sequential. At most one
\* submission is made: exactly one, unless reading the seed image threw, and
\* then the call returns its error without any remote call; the poll-fetches,
\* the download and the write follow in order.
C15_SequentialIO ==
  \A c \in VideoCalls :
    /\ PollsDownloadWriteInOrder(c)
    /\ calls[c].submits = (IF calls[c].pc = "idle" \/ calls[c].thrown = "readFileSync"
                           THEN 0 ELSE 1)
    /\ calls[c].thrown = "readFileSync" =>
         /\ calls[c].seedReads = 1 /\ calls[c].outcome = "Failure"
         /\ calls[c].fetches = 0 /\ calls[c].downloads = 0 /\ calls[c].writes = 0

\* a call that slept and polled twice, downloaded and wrote its file
C15_Witness ==
  \E c \in VideoCalls :
    /\ calls[c].submits = 1 /\ calls[c].sleeps = 2 /\ calls[c].fetches = 2
    /\ calls[c].fetchKey.seq = 1 /\ calls[c].operation.name.seq = 2
    /\ calls[c].downloads = 1 /\ calls[c].writes = 1

\* C16: a download answered with a status outside 200..299 ends the call with
\* the download-failure response, whose text carries that status (and its
\* status text); the body is not read and no file is written. No other
\* download ends that way.
C16_NonSuccessStatus ==
  \A c \in VideoCalls :
    LET call == calls[c]
        answered == call.status # 0
        success == call.status >= 200 /\ call.status < 300
    IN /\ (answered /\ ~success) =>
            /\ call.pc = "returned" /\ call.ret = "object"
            /\ call.outcome = "DownloadFailure"
            /\ Len(call.content) = 1
            /\ call.content[1].type = "text"
            /\ call.content[1].text.head = "Failed to download video: "
            /\ call.content[1].text.args[1] = call.status
            /\ call.downloads = 1 /\ call.bodyReads = 0 /\ call.writes = 0
            /\ WritesBy(c) = {}
       /\ call.outcome = "DownloadFailure" => answered /\ ~success

\* the redirect status 300, which is not a success status
C16_Witness ==
  \E c \in VideoCalls :
    /\ calls[c].outcome = "DownloadFailure"
    /\ calls[c].status = 300
    /\ calls[c].content[1].text.args = <<300, "Multiple Choices">>

\* the poll-fetches a call can make before the budget is exceeded: one per
\* poll interval within the budget, and the one whose sleep began at the
\* budget exactly
MaxPollFetches == maxWait \div pollInterval + 1

\* C17: a generateVideo invocation whose awaited calls all settle returns, with
\* one terminal outcome; it never makes more than a bounded number of
\* poll-fetches, because an operation that stays pending is cut off by the
\* timeout.
C17_EventuallyReturns ==
  /\ [](\A c \in VideoCalls :
          /\ calls[c].fetches <= MaxPollFetches
          /\ calls[c].pc = "returned" =>
               /\ calls[c].ret = "object"
               /\ calls[c].outcome \in {"Success"} \cup FailedOutcomes)
  /\ <>(\A c \in VideoCalls : calls[c].pc = "returned")

\* an operation that never completes, cut off after the last possible poll
C17_Witness ==
  \E c \in VideoCalls :
    /\ calls[c].pc = "returned"
    /\ calls[c].outcome = "TimedOut"
    /\ calls[c].notDonePolls = MaxPollFetches

SomePart(parts, P(_)) == \E i \in DOMAIN parts : P(parts[i])

\* the image response of generateImage with its one completed write, the text
\* response and the error response of the call c
ImageWithOneWrite(c) ==
  /\ calls[c].ret = "object" /\ calls[c].outcome = "Image"
  /\ Len(calls[c].content) = 1 /\ calls[c].content[1].type = "image"
  /\ calls[c].writes = 1 /\ Cardinality(WritesBy(c)) = 1
TextWithoutWrite(c) ==
  /\ calls[c].ret = "object" /\ calls[c].outcome = "Text"
  /\ Len(calls[c].content) = 1 /\ calls[c].content[1].type = "text"
  /\ calls[c].writes = 0 /\ WritesBy(c) = {}
ErrorWithoutWrite(c) ==
  /\ calls[c].ret = "object" /\ calls[c].outcome = "Failure"
  /\ Len(calls[c].content) = 1 /\ calls[c].content[1].type = "text"
  /\ calls[c].content[1].text.head = "Error generating image: "
  /\ calls[c].writes = 0 /\ WritesBy(c) = {}

\* C18 (as stated): the image response with one write whenever some part
\* carries inline data; the text response without a write whenever no part
\* carries inline data and some part carries text; the error response without
\* a write when the remote call throws.
C18_ThreeBehaviours ==
  \A c \in ImageCalls :
    calls[c].pc = "returned" =>
      /\ (GotParts(c) /\ SomePart(calls[c].parts, IsBinary)) => ImageWithOneWrite(c)
      /\ (GotParts(c) /\ ~SomePart(calls[c].parts, IsBinary)
            /\ SomePart(calls[c].parts, IsText)) => TextWithoutWrite(c)
      /\ ~GotParts(c) => ErrorWithoutWrite(c)

\* C18: a returned generateImage call shows exactly one behaviour. With an
\* inline-data part (text parts or not): the image response and one write, or,
\* when decoding or writing threw, the error response and no write. Without
\* one and with a part whose text is not empty: the text response, no write.
\* With neither: no response object, no write. When the remote call threw:
\* the error response, no write.
C18_OneBehaviourPerResult ==
  \A c \in ImageCalls :
    calls[c].pc = "returned" =>
      /\ (GotParts(c) /\ SomePart(calls[c].parts, IsBinary)) =>
            IF calls[c].thrown = "none" THEN ImageWithOneWrite(c)
            ELSE calls[c].thrown = "writeFileSync" /\ ErrorWithoutWrite(c)
      /\ (GotParts(c) /\ ~SomePart(calls[c].parts, IsBinary)) =>
            /\ calls[c].thrown = "none"
            /\ IF SomePart(calls[c].parts, IsNonEmptyText) THEN TextWithoutWrite(c)
               ELSE /\ calls[c].ret = "undefined" /\ calls[c].outcome = "none"
                    /\ calls[c].writes = 0 /\ WritesBy(c) = {}
      /\ ~GotParts(c) => ErrorWithoutWrite(c)

\* an image part followed by a text part: the image response
C18_Witness ==
  \E c \in ImageCalls :
    /\ calls[c].pc = "returned"
    /\ calls[c].parts = <<BinPart("X"), TxtPart("a")>>
    /\ calls[c].outcome = "Image"
    /\ calls[c].writes = 1

\* C19: when no part of the response carries inline data or text, the
\* handler returns without a response object, hence without a content item;
\* it writes no file and no error was raised or reported.
C19_SilentFallThrough ==
  \A c \in ImageCalls :
    (GotParts(c) /\ ~SomePart(calls[c].parts, IsBinary)
       /\ ~SomePart(calls[c].parts, IsText)) =>
      /\ calls[c].ret = "undefined"
      /\ calls[c].content = << >>
      /\ calls[c].outcome = "none"
      /\ calls[c].thrown = "none"
      /\ calls[c].writes = 0 /\ WritesBy(c) = {}

\* the response has parts, none of them with inline data or text
C19_Witness ==
  \E c \in ImageCalls :
    /\ calls[c].pc = "returned"
    /\ calls[c].parts = <<EmptyPart, EmptyPart>>
    /\ calls[c].ret = "undefined"
====
